---- MODULE Spec2Model ----
(***************************************************************************)
(* Incremental file tracking and vector-index synchronisation of the RAG   *)
(* indexer: FileTracker (indexer/file_tracker.py), VectorStore             *)
(* (common/vector_store.py) and DocumentIndexer (indexer/main.py).         *)
(*                                                                         *)
(* The file system, the ChromaDB "file_metadata" collection and the        *)
(* ChromaDB document collection are the state.  Every method of the three  *)
(* classes is an operator over that state, written in the order of the     *)
(* statements of the method; the operations of the command line are the    *)
(* actions.                                                                *)
(***************************************************************************)
EXTENDS Integers, Sequences, FiniteSets, Bags, TLC

VARIABLES
    fs,      \* the files on disk: path -> Absent or [content, mtime]
    meta,    \* file_metadata collection: file_id -> NoRecord or the metadata dict
    index,   \* document collection: a bag of chunks (the uuid of a chunk is not kept)
    now,     \* time.time(), a logical clock that advances with every indexer call
             \* (past MaxClock when a store call raised: the behaviour ends there)
    last,    \* what the last operation was, what it returned and what it started from
    run      \* the indexer call in progress, when its statements are taken one by one

vars == <<fs, meta, index, now, last, run>>

(***************************************************************************)
(* Bounds of the model.                                                    *)
(***************************************************************************)
MaxClock == 3    \* indexer calls in one behaviour

Paths == {1, 2}            \* the files that can exist in the documents directory
Contents == {1, 2, 3, 4}   \* what a file can hold
Mtimes == {1, 2}           \* st_mtime values a file can carry

(***************************************************************************)
(* The collaborators: stat, the loaders and the splitter, as functions of  *)
(* the content of the file.  Contents 1 and 2 have the same size and       *)
(* different bytes; content 3 is a file the loader raises on; content 4 is *)
(* a file that cannot be opened for reading.                               *)
(***************************************************************************)
st_size(c) == IF c <= 2 THEN 1 ELSE 2

\* hashlib.md5 over the bytes of the file
md5_content(c) == <<"md5", c>>

\* open(file_path, "rb") raises IOError
read_raises(c) == c = 4

\* DocumentLoader.load_pdf / load_text raise on this content
load_raises(c) == c = 3 \/ read_raises(c)

\* DocumentLoader.load_pdf / load_text: the documents of the file
load(c) == <<c>>

\* RecursiveCharacterTextSplitter.split_documents: how many chunks a document gives
split_count(c) == IF c = 2 THEN 2 ELSE 1

(***************************************************************************)
(* Faults of the persistent store during one call on one file: which of    *)
(* the ChromaDB calls made for that file raises.                           *)
(***************************************************************************)
NoFault == [classify |-> FALSE, check |-> FALSE, remove |-> FALSE,
            add |-> FALSE, count |-> FALSE, store |-> FALSE]

(***************************************************************************)
(* Dictionaries: a collection is a function whose domain is its ids.       *)
(***************************************************************************)
Put(d, k, v) == [x \in DOMAIN d \cup {k} |-> IF x = k THEN v ELSE d[x]]

Drop(d, ks) == [x \in DOMAIN d \ ks |-> d[x]]

(***************************************************************************)
(* FileTracker                                                             *)
(***************************************************************************)
\* os.path.exists
exists(p) == p \in DOMAIN fs

\* the ways a caller can spell a path: the absolute path p, or -p, the same
\* file relative to the working directory
PathArgs == Paths \cup {-p : p \in Paths}

\* os.path.abspath
abspath(a) == IF a < 0 THEN -a ELSE a

\* a file id made of the path and of the mtime of the file
generate_file_id_with_mtime(p) ==
    <<"id", abspath(p), IF exists(abspath(p)) THEN fs[abspath(p)].mtime ELSE 0>>

\* generate_file_id: md5 of the absolute path
generate_file_id(p) == <<"id", abspath(p)>>

FileIds == {generate_file_id(p) : p \in Paths}

\* what get_file_hash returns when the file cannot be read: the empty string
HashUnavailable == <<"", 0>>

\* get_file_hash: md5 of the bytes now on disk, "" on IOError
get_file_hash(p) ==
    IF read_raises(fs[p].content) THEN HashUnavailable
    ELSE md5_content(fs[p].content)

\* get_file_metadata of a path that exists: the stat of the file, the time of
\* the call and, when asked for, the content hash
get_file_metadata(p, include_hash) ==
    IF include_hash
    THEN [file_id |-> generate_file_id(p), file_path |-> p,
          size |-> st_size(fs[p].content), mtime |-> fs[p].mtime,
          indexed_at |-> now, content_hash |-> get_file_hash(p)]
    ELSE [file_id |-> generate_file_id(p), file_path |-> p,
          size |-> st_size(fs[p].content), mtime |-> fs[p].mtime,
          indexed_at |-> now]

\* compare_with_stored without the comparison of the content hash
compare_with_stored_no_hash(p, current_metadata, stored_metadata) ==
    IF current_metadata.mtime # stored_metadata.mtime
    THEN <<TRUE, "modified", <<"mtime">>>>
    ELSE IF current_metadata.size # stored_metadata.size
    THEN <<TRUE, "modified", <<"mtime", "size">>>>
    ELSE <<FALSE, "unchanged", <<"mtime", "size">>>>

\* compare_with_stored with the content hash computed and compared first
compare_with_stored_hash_first(p, current_metadata, stored_metadata) ==
    IF get_file_hash(p) # stored_metadata.content_hash
    THEN <<TRUE, "modified", <<"hash">>>>
    ELSE IF current_metadata.mtime # stored_metadata.mtime
    THEN <<TRUE, "modified", <<"hash", "mtime">>>>
    ELSE IF current_metadata.size # stored_metadata.size
    THEN <<TRUE, "modified", <<"hash", "mtime", "size">>>>
    ELSE <<FALSE, "unchanged", <<"hash", "mtime", "size">>>>

\* the comparisons of is_file_modified once the stored record is read: mtime
\* first, then size, then the hash of the bytes now on disk.  The third
\* component is what has been compared, in order.
compare_with_stored(p, current_metadata, stored_metadata) ==
    IF current_metadata.mtime # stored_metadata.mtime
    THEN <<TRUE, "modified", <<"mtime">>>>
    ELSE IF current_metadata.size # stored_metadata.size
    THEN <<TRUE, "modified", <<"mtime", "size">>>>
    ELSE IF get_file_hash(p) # stored_metadata.content_hash
    THEN <<TRUE, "modified", <<"mtime", "size", "hash">>>>
    ELSE <<FALSE, "unchanged", <<"mtime", "size", "hash">>>>

\* is_file_modified with an except branch that reports the file unchanged
is_file_modified_unchanged_on_error(p, m, readFails) ==
    IF ~exists(p) THEN <<FALSE, "not_found", <<>>>>
    ELSE IF readFails THEN <<FALSE, "unchanged", <<>>>>
    ELSE IF generate_file_id(p) \notin DOMAIN m THEN <<TRUE, "new", <<>>>>
    ELSE compare_with_stored(p, get_file_metadata(p, FALSE), m[generate_file_id(p)])

\* is_file_modified: <<is_modified, status, comparisons made>>.
\* readFails: metadata_collection.get raises
is_file_modified(p, m, readFails) ==
    IF ~exists(p) THEN <<FALSE, "not_found", <<>>>>                      \* not current_metadata
    ELSE IF readFails THEN <<TRUE, "new", <<>>>>                         \* except Exception
    ELSE IF generate_file_id(p) \notin DOMAIN m THEN <<TRUE, "new", <<>>>> \* not results['ids']
    ELSE compare_with_stored(p, get_file_metadata(p, FALSE), m[generate_file_id(p)])

\* tracking_record with the time of indexing stored as the mtime
tracking_record_mtime_now(metadata, chunk_count) ==
    [file_path |-> metadata.file_path,
     size |-> metadata.size,
     mtime |-> metadata.indexed_at,
     content_hash |-> metadata.content_hash,
     indexed_at |-> metadata.indexed_at,
     chunk_count |-> chunk_count]

\* the dict store_file_metadata writes: get_file_metadata plus chunk_count
tracking_record(metadata, chunk_count) ==
    [file_path |-> metadata.file_path,
     size |-> metadata.size,
     mtime |-> metadata.mtime,
     content_hash |-> metadata.content_hash,
     indexed_at |-> metadata.indexed_at,
     chunk_count |-> chunk_count]

\* store_file_metadata that always calls metadata_collection.add, which
\* leaves the record of an id the collection already holds as it is
update_or_add_add_only(m, file_id, record) ==
    IF file_id \in DOMAIN m THEN m ELSE Put(m, file_id, record)

\* the two branches of store_file_metadata
update_or_add(m, file_id, record) ==
    IF file_id \in DOMAIN m
    THEN [m EXCEPT ![file_id] = record]   \* metadata_collection.update
    ELSE Put(m, file_id, record)          \* metadata_collection.add

\* store_file_metadata: update the record when one exists, add it otherwise
store_file_metadata(p, chunk_count, m, storeFails) ==
    IF ~exists(p) THEN m                  \* not metadata
    ELSE IF storeFails THEN m             \* except Exception
    ELSE update_or_add(m, generate_file_id(p),
                       tracking_record(get_file_metadata(p, TRUE), chunk_count))

\* get_file_chunk_count: the chunk_count of the stored record, 0 without one
get_file_chunk_count(p, m, readFails) ==
    IF readFails THEN 0
    ELSE IF generate_file_id(p) \in DOMAIN m THEN m[generate_file_id(p)].chunk_count
    ELSE 0

\* remove_file_metadata: the record of the file deleted
remove_file_metadata(p, m, removeFails) ==
    IF removeFails THEN m ELSE Drop(m, {generate_file_id(p)})

\* get_all_tracked_files: every stored record with its id
get_all_tracked_files(m, readFails) ==
    IF readFails THEN {} ELSE DOMAIN m

\* cleanup_deleted_files: delete the record of every tracked file whose
\* file_path is not among the given paths; the collection afterwards
cleanup_deleted_files(existing_file_paths, m, readFails) ==
    Drop(m, {file_id \in get_all_tracked_files(m, readFails) :
                m[file_id].file_path \notin existing_file_paths})

\* is_file_modified that stores a record for a file it finds new
stores_after_is_file_modified_tracking_new(p, m, ix, readFails) ==
    [meta |-> IF is_file_modified(p, m, readFails)[2] = "new"
              THEN store_file_metadata(p, 0, m, FALSE)
              ELSE m,
     index |-> ix]

\* the two collections after is_file_modified: the only call it makes on a
\* collection is metadata_collection.get, and its except branch prints a
\* warning
stores_after_is_file_modified(p, m, ix, readFails) ==
    [meta |-> m, index |-> ix]

\* the two collections after get_modified_files: those after is_file_modified
\* on every path, one after the other
RECURSIVE stores_after_get_modified_files(_, _, _, _)
stores_after_rest(p, file_paths, flt, after) ==
    stores_after_get_modified_files(file_paths \ {p}, after.meta, after.index, flt)

stores_after_get_modified_files(file_paths, m, ix, flt) ==
    IF file_paths = {} THEN [meta |-> m, index |-> ix]
    ELSE LET p == CHOOSE x \in file_paths : \A y \in file_paths : x <= y
         IN  stores_after_rest(p, file_paths, flt,
                 stores_after_is_file_modified(p, m, ix, flt[p].classify))

\* get_modified_files that reports a path that does not exist as new
get_modified_files_missing_is_new(file_paths, m, flt) ==
    [p \in file_paths |->
        IF exists(p) THEN is_file_modified(p, m, flt[p].classify)[2]
        ELSE "new"]

\* get_modified_files: the status of every given path
get_modified_files(file_paths, m, flt) ==
    [p \in file_paths |->
        IF exists(p) THEN is_file_modified(p, m, flt[p].classify)[2]
        ELSE "not_found"]

(***************************************************************************)
(* VectorStore                                                             *)
(***************************************************************************)
\* the chunks add_documents gives collection.add for a document split into n
\* chunks: TextProcessor.chunk_documents numbers them, add_documents tags them
chunks_of(c, file_id) ==
    {[file_id |-> file_id, content |-> c, chunk_id |-> i] :
        i \in 0..(split_count(c) - 1)}

\* the metadata of a chunk added without a file_id: no 'file_id' key
NoFileId == <<"none", 0>>

\* add_documents: one new entry, under a fresh uuid, for every chunk
add_documents(ix, c, file_id) == ix (+) SetToBag(chunks_of(c, file_id))

\* collection.get(where={"file_id": file_id})
with_file_id(ix, file_id) == {ch \in BagToSet(ix) : ch.file_id = file_id}

\* remove_documents_by_file_id with a delete that is not filtered by file_id
remove_documents_of_every_file(ix, file_id, removeFails) ==
    IF removeFails THEN ix
    ELSE Drop(ix, BagToSet(ix))

\* remove_documents_by_file_id: every chunk of the file deleted; when the
\* collection raises the exception is swallowed and nothing is deleted
remove_documents_by_file_id(ix, file_id, removeFails) ==
    IF removeFails THEN ix
    ELSE Drop(ix, with_file_id(ix, file_id))

\* collection.count() restricted to one file_id
RECURSIVE copies(_, _)
CopiesFrom(ix, S, ch) == ix[ch] + copies(ix, S \ {ch})

copies(ix, S) ==
    IF S = {} THEN 0
    ELSE CopiesFrom(ix, S, CHOOSE x \in S : TRUE)

chunks_in_index(ix, file_id) == copies(ix, with_file_id(ix, file_id))

(***************************************************************************)
(* DocumentIndexer                                                         *)
(***************************************************************************)
\* validate_file_path: the path exists, is a file and has a supported extension
\* (every path of the model is a supported file when it exists)
validate_file_path(p) == exists(p)

\* glob over the three patterns: the supported files now in the directory
RECURSIVE glob(_)
GlobFrom(candidates, p) ==
    (IF exists(p) THEN <<p>> ELSE <<>>) \o glob(candidates \ {p})

glob(candidates) ==
    IF candidates = {} THEN <<>>
    ELSE GlobFrom(candidates, CHOOSE x \in candidates : \A y \in candidates : x <= y)

all_files_in_directory == glob(Paths)

\* a supported file of another directory: no glob of the directory finds it
OutsidePath == 3

Range(seq) == {seq[i] : i \in DOMAIN seq}

SelectStatus(files, file_status, status) ==
    SelectSeq(files, LAMBDA f : file_status[f] = status)

\* _process_and_index_documents that calls add_documents without the file_id
process_and_index_documents_untagged(documents, file_id, ix, addFails) ==
    IF addFails
    THEN [success |-> FALSE, chunk_count |-> 0, index |-> ix]
    ELSE [success |-> TRUE,
          chunk_count |-> split_count(documents[1]),
          index |-> add_documents(ix, documents[1], NoFileId)]

\* _process_and_index_documents: <<success, chunk_count>> and the collection
\* afterwards; an exception of add_documents is caught and gives <<FALSE, 0>>
process_and_index_documents(documents, file_id, ix, addFails) ==
    IF addFails
    THEN [success |-> FALSE, chunk_count |-> 0, index |-> ix]
    ELSE [success |-> TRUE,
          chunk_count |-> split_count(documents[1]),
          index |-> add_documents(ix, documents[1], file_id)]

\* what index_single_file returns, and the two collections afterwards
Returned(success, chunk_count, status, ingested, m, ix) ==
    [success |-> success, chunk_count |-> chunk_count, status |-> status,
     ingested |-> ingested, meta |-> m, index |-> ix]

\* index_single_file from "Process and index with file_id" on
index_and_track(p, update_tracking, flt, m, status, r) ==
    Returned(r.success, r.chunk_count, status, r.success,
             IF r.success /\ update_tracking
             THEN store_file_metadata(p, r.chunk_count, m, flt.store)
             ELSE m,
             r.index)

\* index_single_file from "Load documents" on; ix is the collection after the
\* removal of the old chunks
load_and_index(p, update_tracking, flt, m, status, ix) ==
    IF load_raises(fs[p].content) THEN Returned(FALSE, 0, status, FALSE, m, ix)
    ELSE IF load(fs[p].content) = <<>> THEN Returned(FALSE, 0, status, FALSE, m, ix)
    ELSE index_and_track(p, update_tracking, flt, m, status,
            process_and_index_documents(load(fs[p].content), generate_file_id(p),
                                        ix, flt.add))

\* index_classified without the early return on an unchanged file
index_classified_no_early_exit(p, update_tracking, flt, m, ix, cls) ==
    load_and_index(p, update_tracking, flt, m, cls[2],
        IF cls[2] = "modified"
        THEN remove_documents_by_file_id(ix, generate_file_id(p), flt.remove)
        ELSE ix)

\* index_single_file from the result <<is_modified, status>> of is_file_modified on
index_classified(p, update_tracking, flt, m, ix, cls) ==
    IF ~cls[1] /\ cls[2] = "unchanged"
    THEN Returned(TRUE, get_file_chunk_count(p, m, flt.count), cls[2], FALSE, m, ix)
    ELSE load_and_index(p, update_tracking, flt, m, cls[2],
            IF cls[2] = "modified"
            THEN remove_documents_by_file_id(ix, generate_file_id(p), flt.remove)
            ELSE ix)

\* index_single_file: what it returns and the two collections afterwards
index_single_file(p, update_tracking, flt, m, ix) ==
    IF ~validate_file_path(p) THEN Returned(FALSE, 0, "invalid", FALSE, m, ix)
    ELSE index_classified(p, update_tracking, flt, m, ix,
                          is_file_modified(p, m, flt.check))

\* one more file added to the sums of the first loop
Accumulate(f, r, rest) ==
    [total_chunks |-> (IF r.success THEN r.chunk_count ELSE 0) + rest.total_chunks,
     ingested |-> (IF r.ingested THEN {f} ELSE {}) \cup rest.ingested,
     failed |-> (IF r.success THEN {} ELSE {f}) \cup rest.failed,
     meta |-> rest.meta, index |-> rest.index]

\* the first loop of index_documents_from_directory: index_single_file without
\* tracking on every file to process, adding up the chunk counts of the successes
RECURSIVE process_files(_, _, _, _)
\* ProcessRest with the loop left at the first file that fails
ProcessRest_stop_at_failure(f, files, flt, r) ==
    Accumulate(f, r,
        IF r.success THEN process_files(files, flt, r.meta, r.index)
        ELSE [total_chunks |-> 0, ingested |-> {}, failed |-> {},
              meta |-> r.meta, index |-> r.index])

ProcessRest(f, files, flt, r) ==
    Accumulate(f, r, process_files(files, flt, r.meta, r.index))

process_files(files, flt, m, ix) ==
    IF files = <<>>
    THEN [total_chunks |-> 0, ingested |-> {}, failed |-> {}, meta |-> m, index |-> ix]
    ELSE ProcessRest(Head(files), Tail(files), flt,
                     index_single_file(Head(files), FALSE, flt[Head(files)], m, ix))

\* the second loop: the tracking record of every processed file is stored with
\* the chunk count get_file_chunk_count reads from the metadata collection
RECURSIVE update_tracking_of(_, _, _)
update_tracking_of(files, flt, m) ==
    IF files = <<>> THEN m
    ELSE update_tracking_of(Tail(files), flt,
            store_file_metadata(Head(files),
                                get_file_chunk_count(Head(files), m, flt[Head(files)].count),
                                m, flt[Head(files)].store))

\* what index_documents_from_directory returns, and the collections afterwards
PassResult(ok, file_status, files_to_process, total_chunks, ingested, failed, cleaned, m, ix) ==
    [ok |-> ok, status |-> file_status, files_to_process |-> files_to_process,
     total_chunks |-> total_chunks, ingested |-> ingested, failed |-> failed,
     cleaned |-> cleaned, meta |-> m, index |-> ix]

\* index_documents_from_directory after the first loop: the tracking loop and
\* the cleanup of deleted files
track_and_cleanup(all_files, file_status, files_to_process, flt, done) ==
    PassResult(TRUE, file_status, files_to_process, done.total_chunks,
               done.ingested, done.failed, TRUE,
               cleanup_deleted_files(Range(all_files),
                   update_tracking_of(files_to_process, flt.file, done.meta),
                   flt.cleanup),
               done.index)

\* index_documents_from_directory from the choice of the files to process on
process_directory(all_files, file_status, files_to_process, flt, m, ix) ==
    IF files_to_process = <<>>
    THEN PassResult(TRUE, file_status, <<>>, 0, {}, {}, FALSE, m, ix)
    ELSE track_and_cleanup(all_files, file_status, files_to_process, flt,
                           process_files(files_to_process, flt.file, m, ix))

\* classify_and_process with every supported file taken for processing
classify_and_process_all(all_files, file_status, force_reindex, flt, m, ix) ==
    process_directory(all_files, file_status, all_files, flt, m, ix)

\* files_to_process: every file with force_reindex, else the new files
\* followed by the modified ones
files_to_process_of(all_files, file_status, force_reindex) ==
    IF force_reindex THEN all_files
    ELSE SelectStatus(all_files, file_status, "new")
            \o SelectStatus(all_files, file_status, "modified")

\* index_documents_from_directory from the classification of the files on
classify_and_process(all_files, file_status, force_reindex, flt, m, ix) ==
    process_directory(all_files, file_status,
        files_to_process_of(all_files, file_status, force_reindex),
        flt, m, ix)

\* index_files without the return on an empty list of supported files
index_files_no_empty_check(all_files, force_reindex, flt, m, ix) ==
    classify_and_process(all_files,
                         get_modified_files(Range(all_files), m, flt.file),
                         force_reindex, flt, m, ix)

\* index_documents_from_directory from the list of the supported files on
index_files(all_files, force_reindex, flt, m, ix) ==
    IF all_files = <<>>
    THEN PassResult(FALSE, << >>, <<>>, 0, {}, {}, FALSE, m, ix)    \* no_documents
    ELSE classify_and_process(all_files,
                              get_modified_files(Range(all_files), m, flt.file),
                              force_reindex, flt, m, ix)

\* index_documents_from_directory: what it returns and the collections afterwards
index_documents_from_directory(valid, force_reindex, flt, m, ix) ==
    IF ~valid
    THEN PassResult(FALSE, << >>, <<>>, 0, {}, {}, FALSE, m, ix)    \* validate_directory_path
    ELSE index_files(all_files_in_directory, force_reindex, flt, m, ix)

\* VectorStore.clear_collection: the collection deleted and created again
clear_collection(ix) == EmptyBag

\* clear_index that leaves the file_metadata collection as it is
clear_index_keeps_tracking(m, ix, clearFails) ==
    [ok |-> TRUE, meta |-> m, index |-> clear_collection(ix)]

\* clear_index: the document collection cleared, then the file_metadata
\* collection deleted and created again; when that raises a warning is
\* printed and the records stay
clear_index(m, ix, clearFails) ==
    [ok |-> TRUE,
     meta |-> IF clearFails THEN m ELSE << >>,
     index |-> clear_collection(ix)]

(***************************************************************************)
(* The state machine.                                                      *)
(***************************************************************************)
\* the faults of one operation: per file, and of the cleanup of deleted files
NoFaults ==
    [file |-> [p \in Paths \cup {OutsidePath} |-> NoFault],
     cleanup |-> FALSE, clear |-> FALSE]

FaultAt(p, k) == [NoFaults EXCEPT !.file[p][k] = TRUE]

CleanupFault == [NoFaults EXCEPT !.cleanup = TRUE]

ClearFault == [NoFaults EXCEPT !.clear = TRUE]

\* what a writer can leave at a path: the first file is rewritten with other
\* bytes of the same size, with the same bytes and a new mtime, or with bytes
\* of another size the loader raises on; the second file is one the loader
\* reads or one that cannot be opened
FileStates(p) ==
    IF p = 1
    THEN {[content |-> 1, mtime |-> 1], [content |-> 2, mtime |-> 1],
          [content |-> 1, mtime |-> 2], [content |-> 3, mtime |-> 1]}
    ELSE {[content |-> 1, mtime |-> 1], [content |-> 4, mtime |-> 1]}

FsStates ==
    UNION {{f \in [S -> [content : Contents, mtime : Mtimes]] :
                \A p \in S : f[p] \in FileStates(p)} : S \in SUBSET Paths}

\* what an operation leaves for the observer: its arguments and what it returned
Observation(op, p, force, ok, chunk_count, status, files, ingested, failed, cleaned, flt) ==
    [op |-> op, path |-> p, force |-> force, ok |-> ok, chunk_count |-> chunk_count,
     status |-> status, files_to_process |-> files, ingested |-> ingested,
     failed |-> failed, cleaned |-> cleaned, flt |-> flt, prev_op |-> last.op,
     pre_meta |-> meta, pre_index |-> index,
     paths |-> {}, checks |-> << >>, answer |-> << >>]

FsObservation(op) ==
    Observation(op, 0, FALSE, TRUE, 0, << >>, <<>>, {}, {}, FALSE, NoFaults)

\* no indexer call in progress
Idle ==
    [op |-> "idle", phase |-> "idle", at |-> 0, force |-> FALSE,
     all_files |-> <<>>, status |-> << >>, files_to_process |-> <<>>,
     todo |-> <<>>, totrack |-> <<>>, p |-> 0, cur_status |-> "none", removed |-> 0,
     total_chunks |-> 0, ingested |-> {}, failed |-> {}, log |-> <<>>,
     prev_op |-> "init", pre_meta |-> << >>, pre_index |-> EmptyBag]

\* a new DocumentIndexer over an empty chroma_db; the directory holds any files
Fresh ==
    /\ meta = << >>
    /\ index = EmptyBag
    /\ now = 1
    /\ last = [op |-> "init", path |-> 0, force |-> FALSE, ok |-> TRUE,
               chunk_count |-> 0, status |-> << >>, files_to_process |-> <<>>,
               ingested |-> {}, failed |-> {}, cleaned |-> FALSE, flt |-> NoFaults,
               prev_op |-> "init", pre_meta |-> << >>, pre_index |-> EmptyBag,
               paths |-> {}, checks |-> << >>, answer |-> << >>]
    /\ run = Idle

Init == fs \in FsStates /\ Fresh

\* a file is created or rewritten; the writer decides the bytes and the mtime
\* (the files stop changing once the last indexer call has been made)
WriteFile(p, c, t) ==
    /\ run.op = "idle"
    /\ now <= MaxClock
    /\ [content |-> c, mtime |-> t] \in FileStates(p)
    /\ exists(p) => fs[p] # [content |-> c, mtime |-> t]
    /\ fs' = Put(fs, p, [content |-> c, mtime |-> t])
    /\ last' = FsObservation("write")
    /\ UNCHANGED <<meta, index, now, run>>

\* a file is removed from the directory
DeleteFile(p) ==
    /\ run.op = "idle"
    /\ now <= MaxClock
    /\ exists(p)
    /\ fs' = Drop(fs, {p})
    /\ last' = FsObservation("delete")
    /\ UNCHANGED <<meta, index, now, run>>

\* the collections and the observation after index_single_file returned r
AfterIndexSingleFile(p, flt, r) ==
    /\ meta' = r.meta
    /\ index' = r.index
    /\ last' = Observation("file", p, FALSE, r.success, r.chunk_count,
                           IF exists(p) THEN (p :> r.status) ELSE << >>,
                           <<p>>,
                           IF r.ingested THEN {p} ELSE {},
                           IF r.success THEN {} ELSE {p}, FALSE, flt)

\* python -m indexer.main file <path>
RunIndexSingleFile(p, flt) ==
    /\ run.op = "idle"
    /\ now <= MaxClock
    /\ AfterIndexSingleFile(p, flt, index_single_file(p, TRUE, flt.file[p], meta, index))
    /\ now' = IF flt = NoFaults THEN now + 1 ELSE MaxClock + 1
    /\ UNCHANGED <<fs, run>>

\* the collections and the observation after index_documents_from_directory returned r
AfterIndexDirectory(valid, force, flt, r) ==
    /\ meta' = r.meta
    /\ index' = r.index
    /\ last' = Observation(IF valid THEN "dir" ELSE "dir_missing", 0, force,
                           r.ok, r.total_chunks, r.status,
                           r.files_to_process, r.ingested, r.failed,
                           r.cleaned, flt)

\* python -m indexer.main directory | force
RunIndexDirectory(valid, force, flt) ==
    /\ run.op = "idle"
    /\ now <= MaxClock
    /\ AfterIndexDirectory(valid, force, flt,
            index_documents_from_directory(valid, force, flt, meta, index))
    /\ now' = IF flt = NoFaults THEN now + 1 ELSE MaxClock + 1
    /\ UNCHANGED <<fs, run>>

\* the collections and the observation after clear_index returned r
AfterClearIndex(flt, r) ==
    /\ meta' = r.meta
    /\ index' = r.index
    /\ last' = Observation("clear", 0, FALSE, r.ok, 0, << >>, <<>>, {}, {}, FALSE, flt)

\* python -m indexer.main clear, the question answered with yes
RunClearIndex(flt) ==
    /\ run.op = "idle"
    /\ now <= MaxClock
    /\ AfterClearIndex(flt, clear_index(meta, index, flt.clear))
    /\ now' = IF flt = NoFaults THEN now + 1 ELSE MaxClock + 1
    /\ UNCHANGED <<fs, run>>

IndexFile == \E p \in Paths : RunIndexSingleFile(p, NoFaults)

ClearIndex == RunClearIndex(NoFaults)

IndexDirectory == \E force \in BOOLEAN : RunIndexDirectory(TRUE, force, NoFaults)

\* the path given is no directory
IndexMissingDirectory == RunIndexDirectory(FALSE, FALSE, NoFaults)

Write == \E p \in Paths, c \in Contents, t \in Mtimes : WriteFile(p, c, t)

Delete == \E p \in Paths : DeleteFile(p)

Next ==
    \/ Write
    \/ Delete
    \/ IndexFile
    \/ IndexDirectory
    \/ IndexMissingDirectory
    \/ ClearIndex

Spec == Init /\ [][Next]_vars

(***************************************************************************)
(* The same operations over a persistent store whose calls can raise: at   *)
(* most one ChromaDB call raises in one operation, and the operation it    *)
(* raises in is the last indexer call of the behaviour.                    *)
(***************************************************************************)
IndexFileFaulty ==
    \E p \in Paths, k \in {"check", "remove", "add", "count", "store"} :
        RunIndexSingleFile(p, FaultAt(p, k))

IndexDirectoryFaulty ==
    \E force \in BOOLEAN, p \in Paths,
       k \in {"classify", "check", "remove", "add", "count", "store"} :
        RunIndexDirectory(TRUE, force, FaultAt(p, k))

IndexDirectoryCleanupFaulty ==
    \E force \in BOOLEAN : RunIndexDirectory(TRUE, force, CleanupFault)

ClearIndexFaulty == RunClearIndex(ClearFault)

NextFault ==
    \/ Next
    \/ ClearIndexFaulty
    \/ IndexFileFaulty
    \/ IndexDirectoryFaulty
    \/ IndexDirectoryCleanupFaulty

FaultSpec == Init /\ [][NextFault]_vars

(***************************************************************************)
(* The same calls taken one store call at a time.  The indexer is one      *)
(* process; the search process reads the chunks of a file between the      *)
(* removal of its old chunks and the addition of its new ones.  run holds  *)
(* the locals of the call in progress; the call followed statement by      *)
(* statement is the last one of the behaviour, and the files of the        *)
(* directory stay as they are while it runs.                               *)
(***************************************************************************)
\* the three parts of a directory pass after the choice of files_to_process,
\* cleanup first
pass_order_cleanup_first == <<"cleanup", "process", "track">>

\* the three parts of a directory pass after the choice of files_to_process,
\* in the order of the statements: the first loop, the second loop, the
\* cleanup of deleted files
pass_order == <<"process", "track", "cleanup">>

\* the part that follows the part numbered at, "return" after the last
phase_after(at) ==
    IF at < Len(pass_order) THEN pass_order[at + 1] ELSE "return"

\* index_single_file up to "Load documents", the file classified cls: the
\* call has returned (done), or the old chunks of a modified file are removed
\* and the file is to be loaded
begin_classified(p, flt, m, ix, cls) ==
    IF ~cls[1] /\ cls[2] = "unchanged"
    THEN [done |-> TRUE, removed |-> 0,
          r |-> Returned(TRUE, get_file_chunk_count(p, m, flt.count), cls[2], FALSE, m, ix)]
    ELSE IF cls[2] = "modified"
    THEN [done |-> FALSE, removed |-> chunks_in_index(ix, generate_file_id(p)),
          r |-> Returned(FALSE, 0, cls[2], FALSE, m,
                         remove_documents_by_file_id(ix, generate_file_id(p), flt.remove))]
    ELSE [done |-> FALSE, removed |-> 0, r |-> Returned(FALSE, 0, cls[2], FALSE, m, ix)]

\* index_single_file up to "Load documents"
begin_single_file(p, flt, m, ix) ==
    IF ~validate_file_path(p)
    THEN [done |-> TRUE, removed |-> 0, r |-> Returned(FALSE, 0, "invalid", FALSE, m, ix)]
    ELSE begin_classified(p, flt, m, ix, is_file_modified(p, m, flt.check))

\* index_single_file from "Load documents" on; the loader raises on a file
\* that is no longer there
finish_single_file(p, update_tracking, flt, m, status, ix) ==
    IF ~exists(p) THEN Returned(FALSE, 0, status, FALSE, m, ix)
    ELSE load_and_index(p, update_tracking, flt, m, status, ix)

\* the observation of a call taken in steps: what it returned, and the
\* collections it started from
StepObservation(op, p, ok, chunk_count, status, files, ingested, failed, cleaned) ==
    [Observation(op, p, run.force, ok, chunk_count, status, files, ingested,
                 failed, cleaned, NoFaults)
        EXCEPT !.prev_op = run.prev_op, !.pre_meta = run.pre_meta,
               !.pre_index = run.pre_index]

\* the locals of a call that starts now
Started(op) ==
    [Idle EXCEPT !.op = op, !.prev_op = last.op, !.pre_meta = meta, !.pre_index = index]

\* index_single_file(p) has come to "Load documents", or has returned
AfterBeginFile(p, b) ==
    IF b.done
    THEN RunIndexSingleFile(p, NoFaults)
    ELSE /\ run' = [Started("file") EXCEPT !.phase = "load", !.p = p,
                        !.cur_status = b.r.status, !.removed = b.removed]
         /\ index' = b.r.index
         /\ UNCHANGED <<fs, meta, now, last>>

\* python -m indexer.main file <path>: from the call to "Load documents"
StartFile(p) ==
    /\ run.op = "idle"
    /\ now <= MaxClock
    /\ AfterBeginFile(p, begin_single_file(p, NoFault, meta, index))

\* index_single_file has returned r to the command line
ReturnFile(p, r) ==
    /\ meta' = r.meta
    /\ index' = r.index
    /\ last' = StepObservation("file", p, r.success, r.chunk_count,
                                IF exists(p) THEN (p :> r.status) ELSE << >>,
                                <<p>>,
                                IF r.ingested THEN {p} ELSE {},
                                IF r.success THEN {} ELSE {p}, FALSE)
    /\ run' = Idle
    /\ now' = MaxClock + 1
    /\ UNCHANGED fs

\* index_single_file: from "Load documents" to the return
LoadFile ==
    /\ run.op = "file"
    /\ run.phase = "load"
    /\ ReturnFile(run.p, finish_single_file(run.p, TRUE, NoFault, meta,
                                             run.cur_status, index))

\* the pass has chosen its files to process
AfterChoice(force, all_files, file_status, files) ==
    IF files = <<>>
    THEN RunIndexDirectory(TRUE, force, NoFaults)
    ELSE /\ run' = [Started("dir") EXCEPT !.at = 1, !.phase = pass_order[1],
                        !.force = force, !.all_files = all_files,
                        !.status = file_status, !.files_to_process = files,
                        !.todo = files, !.totrack = files]
         /\ UNCHANGED <<fs, meta, index, now, last>>

AfterClassification(force, all_files, file_status) ==
    AfterChoice(force, all_files, file_status,
                files_to_process_of(all_files, file_status, force))

\* python -m indexer.main directory | force: from the call to the choice of
\* the files to process
StartDirectory(force) ==
    /\ run.op = "idle"
    /\ now <= MaxClock
    /\ AfterClassification(force, all_files_in_directory,
                            get_modified_files(Range(all_files_in_directory), meta,
                                               NoFaults.file))

\* the locals of the pass when one of its three parts has no file left
PartDone(r) ==
    [r EXCEPT !.at = @ + 1, !.phase = phase_after(r.at)]

\* the first loop has index_single_file(f) returned r
FileProcessed(f, r) ==
    /\ meta' = r.meta
    /\ index' = r.index
    /\ run' = [todo |-> Tail(run.todo), p |-> 0, cur_status |-> "none",
                removed |-> 0,
                total_chunks |-> run.total_chunks
                                    + (IF r.success THEN r.chunk_count ELSE 0),
                ingested |-> run.ingested \cup (IF r.ingested THEN {f} ELSE {}),
                failed |-> run.failed \cup (IF r.success THEN {} ELSE {f}),
                log |-> Append(run.log, <<"process", f>>)]
                    @@ (IF Tail(run.todo) = <<>> THEN PartDone(run)
                        ELSE [run EXCEPT !.phase = "process"])
    /\ UNCHANGED <<fs, now, last>>

\* the first loop has index_single_file(f) at "Load documents", or returned
AfterBeginInPass(f, b) ==
    IF b.done
    THEN FileProcessed(f, b.r)
    ELSE /\ run' = [run EXCEPT !.phase = "load", !.p = f,
                        !.cur_status = b.r.status, !.removed = b.removed]
         /\ index' = b.r.index
         /\ UNCHANGED <<fs, meta, now, last>>

\* the first loop calls index_single_file on its next file
ProcessFile ==
    /\ run.op = "dir"
    /\ run.phase = "process"
    /\ AfterBeginInPass(Head(run.todo),
                         begin_single_file(Head(run.todo), NoFault, meta, index))

\* index_single_file of the first loop: from "Load documents" to the return
LoadFileInPass ==
    /\ run.op = "dir"
    /\ run.phase = "load"
    /\ FileProcessed(run.p, finish_single_file(run.p, FALSE, NoFault, meta,
                                                run.cur_status, index))

\* the second loop stores the tracking record of its next file
TrackFile ==
    /\ run.op = "dir"
    /\ run.phase = "track"
    /\ meta' = store_file_metadata(Head(run.totrack),
                    get_file_chunk_count(Head(run.totrack), meta, FALSE), meta, FALSE)
    /\ run' = [totrack |-> Tail(run.totrack),
                log |-> Append(run.log, <<"track", Head(run.totrack)>>)]
                    @@ (IF Tail(run.totrack) = <<>> THEN PartDone(run) ELSE run)
    /\ UNCHANGED <<fs, index, now, last>>

\* cleanup_deleted_files(all_files)
CleanupDeleted ==
    /\ run.op = "dir"
    /\ run.phase = "cleanup"
    /\ meta' = cleanup_deleted_files(Range(run.all_files), meta, FALSE)
    /\ run' = [log |-> Append(run.log, <<"cleanup", 0>>)] @@ PartDone(run)
    /\ UNCHANGED <<fs, index, now, last>>

\* index_documents_from_directory returns True
ReturnDirectory ==
    /\ run.op = "dir"
    /\ run.phase = "return"
    /\ last' = StepObservation("dir", 0, TRUE, run.total_chunks, run.status,
                                run.files_to_process, run.ingested, run.failed, TRUE)
    /\ run' = Idle
    /\ now' = MaxClock + 1
    /\ UNCHANGED <<fs, meta, index>>

\* the search process reads the chunks of the file that is being indexed:
\* get_documents_by_file_id, or the collection.query of similarity_search
ReadFile(p) ==
    /\ run.phase = "load"
    /\ run.p = p
    /\ last' = Observation("read", p, FALSE, TRUE,
                            chunks_in_index(index, generate_file_id(p)),
                            << >>, <<>>, {}, {}, FALSE, NoFaults)
    /\ UNCHANGED <<fs, meta, index, now, run>>

IndexFileInSteps == \E p \in Paths : StartFile(p)

IndexDirectoryInSteps == \E force \in BOOLEAN : StartDirectory(force)

Read == \E p \in Paths : ReadFile(p)

NextStep ==
    \/ Next
    \/ IndexFileInSteps
    \/ LoadFile
    \/ IndexDirectoryInSteps
    \/ ProcessFile
    \/ LoadFileInPass
    \/ TrackFile
    \/ CleanupDeleted
    \/ ReturnDirectory
    \/ Read

StepSpec == Init /\ [][NextStep]_vars

(***************************************************************************)
(* index_single_file run by two indexer processes over the same chroma_db, *)
(* each taken statement by statement: the classification with the removal  *)
(* of the old chunks, the load of the file, the addition of the chunks,    *)
(* the storing of the tracking record.  run.calls holds the locals of the  *)
(* two calls; a writer can rewrite a file between its load and the         *)
(* storing of its record.  The calls are the last of the behaviour.        *)
(***************************************************************************)
Runs == {1, 2}

\* the locals of an index_single_file call that has not started
NotStarted ==
    [pc |-> "idle", p |-> 0, status |-> "none", documents |-> <<>>,
     chunk_count |-> 0, success |-> FALSE, ingested |-> FALSE]

\* the locals of the calls of the two processes
CallsOf(r) == IF r.op = "calls" THEN r.calls ELSE [i \in Runs |-> NotStarted]

\* the call of process i goes on with the locals c
SetCall(i, c) ==
    run' = [op |-> "calls", calls |-> [CallsOf(run) EXCEPT ![i] = c]]

\* the call of process i returns
ReturnCall(i, p, success, chunk_count, status, ingested) ==
    SetCall(i, [pc |-> "done", p |-> p, status |-> status, documents |-> <<>>,
                chunk_count |-> chunk_count, success |-> success,
                ingested |-> ingested])

\* index_single_file(p) of process i has come to "Load documents", or has
\* returned
AfterBeginCall(i, p, b) ==
    /\ index' = b.r.index
    /\ IF b.done
       THEN ReturnCall(i, p, b.r.success, b.r.chunk_count, b.r.status, FALSE)
       ELSE SetCall(i, [NotStarted EXCEPT !.pc = "load", !.p = p,
                                          !.status = b.r.status])
    /\ UNCHANGED <<fs, meta, now, last>>

\* process i: python -m indexer.main file <path>, up to "Load documents"
BeginCall(i, p) ==
    /\ run.op \in {"idle", "calls"}
    /\ CallsOf(run)[i].pc = "idle"
    /\ now <= MaxClock
    /\ AfterBeginCall(i, p, begin_single_file(p, NoFault, meta, index))

\* process i: "Load documents", the loader reading the file as it is now
LoadCall(i) ==
    /\ run.op = "calls"
    /\ run.calls[i].pc = "load"
    /\ IF ~exists(run.calls[i].p)
       THEN ReturnCall(i, run.calls[i].p, FALSE, 0, run.calls[i].status, FALSE)
       ELSE IF load_raises(fs[run.calls[i].p].content)
       THEN ReturnCall(i, run.calls[i].p, FALSE, 0, run.calls[i].status, FALSE)
       ELSE IF load(fs[run.calls[i].p].content) = <<>>
       THEN ReturnCall(i, run.calls[i].p, FALSE, 0, run.calls[i].status, FALSE)
       ELSE SetCall(i, [run.calls[i] EXCEPT !.pc = "index",
                            !.documents = load(fs[run.calls[i].p].content)])
    /\ UNCHANGED <<fs, meta, index, now, last>>

\* _process_and_index_documents of process i has returned r
AfterIndexCall(i, r) ==
    /\ index' = r.index
    /\ IF r.success
       THEN SetCall(i, [run.calls[i] EXCEPT !.pc = "track",
                            !.chunk_count = r.chunk_count])
       ELSE ReturnCall(i, run.calls[i].p, FALSE, 0, run.calls[i].status, FALSE)
    /\ UNCHANGED <<fs, meta, now, last>>

\* process i: "Process and index with file_id", the loaded documents chunked
\* and added to the collection
IndexCall(i) ==
    /\ run.op = "calls"
    /\ run.calls[i].pc = "index"
    /\ AfterIndexCall(i, process_and_index_documents(run.calls[i].documents,
                            generate_file_id(run.calls[i].p), index, FALSE))

\* process i: "Update file tracking", store_file_metadata on the file as it
\* is now, and the return
TrackCall(i) ==
    /\ run.op = "calls"
    /\ run.calls[i].pc = "track"
    /\ meta' = store_file_metadata(run.calls[i].p, run.calls[i].chunk_count,
                                   meta, FALSE)
    /\ ReturnCall(i, run.calls[i].p, TRUE, run.calls[i].chunk_count,
                  run.calls[i].status, TRUE)
    /\ UNCHANGED <<fs, index, now, last>>

\* a writer rewrites the file a call has loaded and not yet tracked
EditFile(p, c, t) ==
    /\ run.op = "calls"
    /\ \E i \in Runs : run.calls[i].p = p /\ run.calls[i].pc \in {"index", "track"}
    /\ [content |-> c, mtime |-> t] \in FileStates(p)
    /\ fs[p] # [content |-> c, mtime |-> t]
    /\ fs' = Put(fs, p, [content |-> c, mtime |-> t])
    /\ UNCHANGED <<meta, index, now, last, run>>

Edit == \E p \in Paths, c \in Contents, t \in Mtimes : EditFile(p, c, t)

BeginAny == \E i \in Runs, p \in Paths : BeginCall(i, p)

LoadAny == \E i \in Runs : LoadCall(i)

IndexAny == \E i \in Runs : IndexCall(i)

TrackAny == \E i \in Runs : TrackCall(i)

\* two index_single_file calls at the same time, the files left alone
NextConcurrent ==
    \/ Write
    \/ Delete
    \/ IndexFile
    \/ BeginAny
    \/ LoadAny
    \/ IndexAny
    \/ TrackAny

ConcurrentSpec == Init /\ [][NextConcurrent]_vars

\* the same calls and a writer
NextEdit ==
    \/ NextConcurrent
    \/ Edit

EditSpec == Init /\ [][NextEdit]_vars

(***************************************************************************)
(* The methods of FileTracker called one by one, in any order, on files    *)
(* that are written and deleted in between.                                *)
(***************************************************************************)
\* the chunk counts a caller can give store_file_metadata
ChunkCounts == {0} \cup {split_count(c) : c \in Contents}

\* file_tracker.store_file_metadata(p, chunk_count)
StoreFileMetadata(p, chunk_count) ==
    /\ run.op = "idle"
    /\ now <= MaxClock
    /\ meta' = store_file_metadata(p, chunk_count, meta, FALSE)
    /\ last' = Observation("store", p, FALSE, exists(p), chunk_count,
                            << >>, <<>>, {}, {}, FALSE, NoFaults)
    /\ now' = now + 1
    /\ UNCHANGED <<fs, index, run>>

\* file_tracker.remove_file_metadata(p)
RemoveFileMetadata(p) ==
    /\ run.op = "idle"
    /\ now <= MaxClock
    /\ meta' = remove_file_metadata(p, meta, FALSE)
    /\ last' = Observation("remove", p, FALSE, TRUE, 0,
                            << >>, <<>>, {}, {}, FALSE, NoFaults)
    /\ now' = now + 1
    /\ UNCHANGED <<fs, index, run>>

\* file_tracker.cleanup_deleted_files(existing_file_paths)
CleanupDeletedFiles(existing_file_paths) ==
    /\ run.op = "idle"
    /\ now <= MaxClock
    /\ meta' = cleanup_deleted_files(existing_file_paths, meta, FALSE)
    /\ last' = [Observation("cleanup", 0, FALSE, TRUE, 0,
                             << >>, <<>>, {}, {}, FALSE, NoFaults)
                    EXCEPT !.paths = existing_file_paths]
    /\ now' = now + 1
    /\ UNCHANGED <<fs, index, run>>

\* get_modified_files(file_paths) has returned; flt: the reads that raised
GetModifiedFilesCall(op, file_paths, flt, after) ==
    /\ run.op = "idle"
    /\ now <= MaxClock
    /\ meta' = after.meta
    /\ index' = after.index
    /\ last' = [Observation(op, 0, FALSE, TRUE, 0,
                             get_modified_files(file_paths, meta, flt.file),
                             <<>>, {}, {}, FALSE, flt)
                    EXCEPT !.paths = file_paths]
    /\ UNCHANGED <<fs, now, run>>

\* file_tracker.get_modified_files(file_paths)
GetModifiedFiles(file_paths) ==
    GetModifiedFilesCall("classify", file_paths, NoFaults,
        stores_after_get_modified_files(file_paths, meta, index, NoFaults.file))

\* file_tracker.get_modified_files(file_paths), metadata_collection.get
\* raising for p
GetModifiedFilesFaulty(file_paths, p) ==
    GetModifiedFilesCall("classify_fault", file_paths, FaultAt(p, "classify"),
        stores_after_get_modified_files(file_paths, meta, index,
                                        FaultAt(p, "classify").file))

\* what is_file_modified(p) has returned
AfterIsFileModified(op, p, cls, flt) ==
    last' = [Observation(op, p, FALSE, cls[1], 0, (p :> cls[2]),
                         <<>>, {}, {}, FALSE, flt)
                EXCEPT !.checks = cls[3]]

\* is_file_modified(p) has returned
IsFileModifiedCall(op, p, readFails, flt, after) ==
    /\ run.op = "idle"
    /\ now <= MaxClock
    /\ meta' = after.meta
    /\ index' = after.index
    /\ AfterIsFileModified(op, p, is_file_modified(p, meta, readFails), flt)
    /\ UNCHANGED <<fs, now, run>>

\* file_tracker.is_file_modified(p)
IsFileModified(p) ==
    IsFileModifiedCall("is_modified", p, FALSE, NoFaults,
                       stores_after_is_file_modified(p, meta, index, FALSE))

\* file_tracker.is_file_modified(p), metadata_collection.get raising
IsFileModifiedFaulty(p) ==
    IsFileModifiedCall("is_modified_fault", p, TRUE, FaultAt(p, "check"),
                       stores_after_is_file_modified(p, meta, index, TRUE))

Store == \E p \in Paths, chunk_count \in ChunkCounts : StoreFileMetadata(p, chunk_count)

Remove == \E p \in Paths : RemoveFileMetadata(p)

Cleanup == \E existing_file_paths \in SUBSET Paths : CleanupDeletedFiles(existing_file_paths)

ClassifyMany == \E file_paths \in SUBSET Paths : GetModifiedFiles(file_paths)

ClassifyOne == \E p \in Paths : IsFileModified(p)

ClassifyManyFaulty ==
    \E file_paths \in SUBSET Paths : \E p \in file_paths :
        GetModifiedFilesFaulty(file_paths, p)

ClassifyOneFaulty == \E p \in Paths : IsFileModifiedFaulty(p)

NextTracker ==
    \/ Write
    \/ Delete
    \/ Store
    \/ Remove
    \/ Cleanup
    \/ ClassifyMany
    \/ ClassifyOne

TrackerSpec == Init /\ [][NextTracker]_vars

\* the classification calls between index_single_file calls and file changes,
\* the read of the stored record raising or not
NextClassify ==
    \/ Write
    \/ Delete
    \/ IndexFile
    \/ ClassifyMany
    \/ ClassifyOne
    \/ ClassifyManyFaulty
    \/ ClassifyOneFaulty

ClassifySpec == Init /\ [][NextClassify]_vars

(***************************************************************************)
(* The indexer used on one directory and on a file of another directory:   *)
(* directory passes over the directory, index_single_file on the file      *)
(* outside, which is there from the start and is never changed.            *)
(***************************************************************************)
InitOutside ==
    /\ fs \in {Put(f, OutsidePath, [content |-> 1, mtime |-> 1]) : f \in FsStates}
    /\ Fresh

IndexOutsideFile == RunIndexSingleFile(OutsidePath, NoFaults)

NextOutside ==
    \/ Write
    \/ Delete
    \/ IndexDirectory
    \/ IndexOutsideFile

OutsideSpec == InitOutside /\ [][NextOutside]_vars

(***************************************************************************)
(* DocumentSearcher (search/main.py) and RAGChain (search/rag_chain.py):   *)
(* the search process asks questions over the document collection the      *)
(* indexer writes.  A question is its length in characters and whether it  *)
(* has one of the words that make it complex.                              *)
(***************************************************************************)
min_question_length == 3

max_question_length == 1000

similarity_search_k == 3

similarity_search_k_complex == 5

max_results == 8

Questions ==
    {[chars |-> 0, complex |-> FALSE], [chars |-> 20, complex |-> FALSE],
     [chars |-> 20, complex |-> TRUE], [chars |-> 1001, complex |-> FALSE]}

\* common.utils.validate_query
validate_query(query) ==
    /\ query.chars # 0
    /\ query.chars >= min_question_length
    /\ query.chars <= max_question_length

\* the k search_documents chooses when it is given none
search_k(query) ==
    IF query.complex THEN similarity_search_k_complex ELSE similarity_search_k

Min(a, b) == IF a <= b THEN a ELSE b

\* VectorStore.similarity_search: the results collection.query can give, the
\* k nearest chunks of the collection, or all of them when there are fewer
similarity_search(ix, k) ==
    {docs \in SubBag(ix) :
        BagCardinality(docs) = Min(Min(k, max_results), BagCardinality(ix))}

ErrorGeneratingResponse == "Error generating response: "

\* what a call that raised leaves to its caller
Raised(e) == <<"raised", e>>

\* generate_response without the try around client.messages.create
generate_response_unguarded(question, retrieved_docs, llmFails) ==
    IF llmFails THEN Raised("e")
    ELSE <<"message.content[0].text", question, retrieved_docs>>

\* RAGChain.generate_response.  llmFails: client.messages.create raises
generate_response(question, retrieved_docs, llmFails) ==
    IF llmFails THEN <<ErrorGeneratingResponse, "e">>
    ELSE <<"message.content[0].text", question, retrieved_docs>>

\* the return statement of ask_question; an exception of generate_response
\* goes through ask_question, which has no handler
answer_with(question, retrieved_docs, response) ==
    IF response[1] = "raised"
    THEN [raised |-> TRUE, result |-> << >>]
    ELSE [raised |-> FALSE,
          result |-> <<[question |-> question, answer |-> response,
                        sources |-> retrieved_docs,
                        num_sources |-> BagCardinality(retrieved_docs)]>>]

\* DocumentSearcher.ask_question; result << >> is None.
\* queryFails: collection.query raises
ask_question(question, api_key_set, queryFails, retrieved_docs, llmFails) ==
    IF ~validate_query(question) THEN [raised |-> FALSE, result |-> << >>]
    ELSE IF ~api_key_set THEN [raised |-> FALSE, result |-> << >>]
    ELSE IF queryFails THEN [raised |-> TRUE, result |-> << >>]
    ELSE IF retrieved_docs = EmptyBag THEN [raised |-> FALSE, result |-> << >>]
    ELSE answer_with(question, retrieved_docs,
                     generate_response(question, retrieved_docs, llmFails))

\* what ask_question has returned, with what it was given
AfterAskQuestion(question, api_key_set, queryFails, retrieved_docs, llmFails, r) ==
    last' = [Observation("ask", 0, FALSE, ~r.raised, 0, << >>, <<>>, {}, {}, FALSE, NoFaults)
                EXCEPT !.answer = [question |-> question, api_key_set |-> api_key_set,
                                   queryFails |-> queryFails, llmFails |-> llmFails,
                                   retrieved_docs |-> retrieved_docs,
                                   result |-> r.result]]

\* searcher.ask_question(question)
AskQuestion(question, api_key_set, queryFails, retrieved_docs, llmFails) ==
    /\ run.op = "idle"
    /\ now <= MaxClock
    /\ AfterAskQuestion(question, api_key_set, queryFails, retrieved_docs, llmFails,
                        ask_question(question, api_key_set, queryFails,
                                     retrieved_docs, llmFails))
    /\ UNCHANGED <<fs, meta, index, now, run>>

Ask ==
    \E question \in Questions, api_key_set \in BOOLEAN, llmFails \in BOOLEAN :
        \E retrieved_docs \in similarity_search(index, search_k(question)) :
            AskQuestion(question, api_key_set, FALSE, retrieved_docs, llmFails)

AskQueryFails ==
    \E question \in Questions :
        AskQuestion(question, TRUE, TRUE, EmptyBag, FALSE)

NextSearch ==
    \/ Write
    \/ Delete
    \/ IndexDirectory
    \/ Ask
    \/ AskQueryFails

SearchSpec == Init /\ [][NextSearch]_vars

(***************************************************************************)
(* Properties.  last holds the arguments and the result of the operation   *)
(* that led to the state, and the two collections it started from.         *)
(***************************************************************************)
\* the record of a file in a metadata collection: {} or one record
RecordOf(m, file_id) == IF file_id \in DOMAIN m THEN {m[file_id]} ELSE {}

\* the chunks of one file in the index, with their numbers of copies
ChunksOf(ix, file_id) == [ch \in with_file_id(ix, file_id) |-> ix[ch]]

\* the record of p says what is on disk now
SameAsStored(p, record) ==
    /\ st_size(fs[p].content) = record.size
    /\ fs[p].mtime = record.mtime
    /\ get_file_hash(p) = record.content_hash

IndexerReturned == last.op \in {"dir", "file"}

\* C1: at the end of every directory pass and of every index_single_file call
\* the chunk_count of each FileRecord is the number of chunks of the vector
\* index tagged with the file_id of the record.
C1_ChunkCountIsChunksInIndex ==
    IndexerReturned =>
        \A file_id \in DOMAIN meta :
            meta[file_id].chunk_count = chunks_in_index(index, file_id)

\* C2: a directory pass removes the FileRecord and every chunk of each tracked
\* file whose path is absent from the enumeration of the directory.
C2_DeletedFilesLeaveBothStores ==
    (last.op = "dir" /\ last.ok) =>
        \A file_id \in DOMAIN last.pre_meta :
            ~exists(last.pre_meta[file_id].file_path) =>
                /\ file_id \notin DOMAIN meta
                /\ chunks_in_index(index, file_id) = 0

\* C3: after a file classified modified has been re-indexed, by
\* index_single_file or by a directory pass, the index holds exactly the
\* chunks of its new content under its file_id and the chunk_count of its
\* FileRecord is the number of those chunks.
C3_ModifiedFileReindexed ==
    IndexerReturned =>
        \A p \in last.ingested :
            last.status[p] = "modified" =>
                /\ ChunksOf(index, generate_file_id(p))
                       = SetToBag(chunks_of(fs[p].content, generate_file_id(p)))
                /\ generate_file_id(p) \in DOMAIN meta
                /\ meta[generate_file_id(p)].chunk_count = split_count(fs[p].content)

\* C4: a directory pass with force_reindex re-loads and re-stores every
\* candidate the loader can read, whatever its classification, and the
\* chunk_count of its FileRecord is the number of chunks freshly stored.
C4_ForceReprocessesEveryCandidate ==
    (last.op = "dir" /\ last.force /\ last.ok) =>
        \A p \in DOMAIN last.status :
            ~load_raises(fs[p].content) =>
                /\ p \in last.ingested
                /\ generate_file_id(p) \in DOMAIN meta
                /\ meta[generate_file_id(p)].chunk_count = split_count(fs[p].content)

\* C5: a directory pass that directly follows a directory pass, the files
\* unchanged in between, adds no chunk, removes no chunk, ingests no file,
\* classifies every candidate unchanged and (unless forced) has nothing to process.
C5_SecondPassDoesNothing ==
    (last.op = "dir" /\ last.prev_op = "dir") =>
        /\ index = last.pre_index
        /\ last.ingested = {}
        /\ \A p \in DOMAIN last.status : last.status[p] = "unchanged"
        /\ ~last.force => last.files_to_process = <<>>

\* a second pass over a directory whose files the first pass has indexed
C5_Witness ==
    /\ last.op = "dir" /\ last.prev_op = "dir"
    /\ ~last.force
    /\ DOMAIN last.status = Paths
    /\ index # EmptyBag
    /\ last.files_to_process = <<>>

\* the status the claim gives p against the records the call started from
ExpectedStatus(p, pre) ==
    IF generate_file_id(p) \notin DOMAIN pre THEN "new"
    ELSE IF SameAsStored(p, pre[generate_file_id(p)]) THEN "unchanged"
    ELSE "modified"

\* C6: for an existing path the classification is 'new' exactly when the path
\* has no FileRecord, else 'modified' exactly when size, mtime or content hash
\* differ from the recorded ones, else 'unchanged' (the store read succeeding).
C6_ClassificationIsSound ==
    IndexerReturned =>
        \A p \in DOMAIN last.status :
            last.status[p] = ExpectedStatus(p, last.pre_meta)

\* a file rewritten with other bytes of the same size and the same mtime is
\* classified modified
C6_Witness ==
    /\ last.op = "file"
    /\ last.path \in DOMAIN last.status
    /\ generate_file_id(last.path) \in DOMAIN last.pre_meta
    /\ st_size(fs[last.path].content) = last.pre_meta[generate_file_id(last.path)].size
    /\ fs[last.path].mtime = last.pre_meta[generate_file_id(last.path)].mtime
    /\ get_file_hash(last.path)
           # last.pre_meta[generate_file_id(last.path)].content_hash
    /\ last.status[last.path] = "modified"

\* C7: a file whose load failed in a directory pass gets no FileRecord written
\* or refreshed by the pass, and a classification after the pass, the file as
\* it was, says 'new' or 'modified'.
C7_FailedLoadIsRetried ==
    (last.op = "dir" /\ last.ok) =>
        \A p \in last.failed :
            load_raises(fs[p].content) =>
                /\ RecordOf(meta, generate_file_id(p))
                       = RecordOf(last.pre_meta, generate_file_id(p))
                /\ is_file_modified(p, meta, FALSE)[2] \in {"new", "modified"}

\* C8: a FileRecord is written by an indexer call only for a file whose chunks
\* the same call has stored.
C8_RecordOnlyAfterChunksStored ==
    IndexerReturned =>
        \A p \in Paths :
            (/\ generate_file_id(p) \in DOMAIN meta
             /\ RecordOf(meta, generate_file_id(p))
                    # RecordOf(last.pre_meta, generate_file_id(p)))
                => p \in last.ingested

\* the removal of the old chunks of p or the addition of its new chunks was
\* called by the last operation and raised
WritePathFailed(p) ==
    /\ p \in Range(last.files_to_process)
    /\ p \in DOMAIN last.status
    /\ \/ last.flt.file[p].remove /\ last.status[p] = "modified"
       \/ /\ last.flt.file[p].add
          /\ last.status[p] \in {"new", "modified"}
          /\ ~load_raises(fs[p].content)

\* C9: when remove_documents_by_file_id or add_documents fails for a file, no
\* chunk is added for the file and its FileRecord is not upserted.
C9_WriteFailureAbortsTheFile ==
    IndexerReturned =>
        \A p \in Paths :
            WritePathFailed(p) =>
                /\ p \notin last.ingested
                /\ RecordOf(meta, generate_file_id(p))
                       = RecordOf(last.pre_meta, generate_file_id(p))

\* the read of the metadata collection in the classification of p raised
ReadFailed(p) ==
    \/ last.op = "file" /\ last.flt.file[p].check
    \/ last.op = "dir" /\ last.flt.file[p].classify

\* C10: a file whose metadata read failed in is_file_modified is classified
\* 'new', never 'unchanged', and is taken for processing: a directory pass
\* puts it in its work set, index_single_file goes on to load and store it.
C10_FailedReadIsNew ==
    IndexerReturned =>
        \A p \in DOMAIN last.status :
            ReadFailed(p) =>
                /\ last.status[p] = "new"
                /\ p \in Range(last.files_to_process)
                /\ (last.op = "file" /\ ~load_raises(fs[p].content)) => p \in last.ingested

\* the read failed for a tracked file that is on disk as it was recorded
C10_Witness ==
    /\ last.op = "file"
    /\ last.path \in DOMAIN last.status
    /\ ReadFailed(last.path)
    /\ generate_file_id(last.path) \in DOMAIN last.pre_meta
    /\ SameAsStored(last.path, last.pre_meta[generate_file_id(last.path)])
    /\ last.status[last.path] = "new"

\* C11: index_single_file on a file classified unchanged returns (True, the
\* chunk_count of its FileRecord) and changes neither the vector index nor the
\* metadata collection, so calling it again leaves both stores as they were.
C11_UnchangedFileIsSkipped ==
    (last.op = "file" /\ last.path \in DOMAIN last.status) =>
        (last.status[last.path] = "unchanged" =>
            /\ last.ok
            /\ generate_file_id(last.path) \in DOMAIN last.pre_meta
            /\ last.chunk_count = last.pre_meta[generate_file_id(last.path)].chunk_count
            /\ last.ingested = {}
            /\ index = last.pre_index
            /\ meta = last.pre_meta)

\* index_single_file called twice in a row on a file that holds chunks
C11_Witness ==
    /\ last.op = "file" /\ last.prev_op = "file"
    /\ last.path \in DOMAIN last.status
    /\ last.status[last.path] = "unchanged"
    /\ last.chunk_count = 2
    /\ chunks_in_index(index, generate_file_id(last.path)) = 2

\* C12: a directory pass over a directory whose only file, indexed before, has
\* been deleted removes the FileRecord of that file and all its chunks: the
\* vector index holds no chunk afterwards.
C12_DeletedOnlyFileIsRemoved ==
    (/\ last.op = "dir" /\ ~last.force
     /\ DOMAIN fs = {}
     /\ Cardinality(DOMAIN last.pre_meta) = 1
     /\ \A file_id \in DOMAIN last.pre_meta :
            BagToSet(last.pre_index) = chunks_of(1, file_id))
        => /\ meta = << >>
           /\ BagCardinality(index) = 0

\* C13: a directory pass without force that finds candidates and classifies
\* all of them unchanged removes the FileRecord of every tracked file whose
\* path is not among the candidates.
C13_CleanupWithEmptyWorkSet ==
    (/\ last.op = "dir" /\ ~last.force
     /\ DOMAIN last.status # {}
     /\ \A p \in DOMAIN last.status : last.status[p] = "unchanged")
        => \A file_id \in DOMAIN last.pre_meta :
               ~exists(last.pre_meta[file_id].file_path) => file_id \notin DOMAIN meta

\* C15: when the directory holds no supported file,
\* index_documents_from_directory returns False and leaves the vector index
\* and the metadata collection as they were.
C15_EmptyDirectoryFails ==
    (last.op = "dir" /\ DOMAIN fs = {}) =>
        /\ ~last.ok
        /\ index = last.pre_index
        /\ meta = last.pre_meta

\* a pass over an emptied directory, files still tracked and chunks still stored
C15_Witness ==
    /\ last.op = "dir"
    /\ DOMAIN fs = {}
    /\ ~last.ok
    /\ DOMAIN meta # {}
    /\ index # EmptyBag

\* C16: a directory pass without force takes for ingestion exactly the
\* candidates classified new or modified, ingests those the loader reads, and
\* leaves the chunks and the FileRecord of every candidate classified
\* unchanged as they were.
C16_OnlyNewAndModifiedAreIngested ==
    (last.op = "dir" /\ ~last.force) =>
        /\ Range(last.files_to_process)
               = {p \in DOMAIN last.status : last.status[p] \in {"new", "modified"}}
        /\ last.ingested
               = {p \in Range(last.files_to_process) : ~load_raises(fs[p].content)}
        /\ \A p \in DOMAIN last.status :
               last.status[p] = "unchanged" =>
                   /\ ChunksOf(index, generate_file_id(p))
                          = ChunksOf(last.pre_index, generate_file_id(p))
                   /\ RecordOf(meta, generate_file_id(p))
                          = RecordOf(last.pre_meta, generate_file_id(p))

\* a pass that ingests one file and skips another that holds chunks
C16_Witness ==
    /\ last.op = "dir" /\ ~last.force
    /\ \E p \in DOMAIN last.status, q \in DOMAIN last.status :
           /\ last.status[p] = "unchanged"
           /\ chunks_in_index(index, generate_file_id(p)) > 0
           /\ last.status[q] = "modified"
           /\ last.ingested = {q}

\* the last operation was a directory pass in which the processing of p failed:
\* its load raised, or the store raised when its chunks were added
FailedInPass(p) ==
    /\ last.op = "dir"
    /\ p \in last.failed

\* C17: a failure in the processing of one file of the work set does not end
\* the directory pass: every other file of the work set is processed (its
\* chunks are stored when nothing fails for it) and the cleanup of deleted
\* files runs (no FileRecord of a file absent from the directory is left,
\* unless the cleanup itself failed).
C17_FileFailureDoesNotAbortPass ==
    \A p \in Paths :
        FailedInPass(p) =>
            /\ last.ok
            /\ \A q \in Range(last.files_to_process) \ last.failed :
                   is_file_modified(q, last.pre_meta, last.flt.file[q].check)[2]
                           \in {"new", "modified"} =>
                       /\ q \in last.ingested
                       /\ chunks_in_index(index, generate_file_id(q))
                              >= split_count(fs[q].content)
            /\ last.cleaned
            /\ ~last.flt.cleanup =>
                   \A file_id \in DOMAIN meta : exists(meta[file_id].file_path)

\* the first file of the work set fails and the second is ingested
C17_Witness ==
    /\ FailedInPass(1)
    /\ last.files_to_process = <<1, 2>>
    /\ last.ingested = {2}
    /\ chunks_in_index(index, generate_file_id(2)) = 1
    /\ last.cleaned

\* C20: index_single_file on one file changes no chunk tagged with the
\* file_id of another file and no FileRecord of another file.
C20_OtherFilesUntouched ==
    last.op = "file" =>
        \A q \in Paths \ {last.path} :
            /\ ChunksOf(index, generate_file_id(q))
                   = ChunksOf(last.pre_index, generate_file_id(q))
            /\ RecordOf(meta, generate_file_id(q))
                   = RecordOf(last.pre_meta, generate_file_id(q))

\* a modified file re-indexed next to a tracked file that holds chunks
C20_Witness ==
    /\ last.op = "file"
    /\ last.ingested = {last.path}
    /\ last.status[last.path] = "modified"
    /\ chunks_in_index(last.pre_index, generate_file_id(last.path)) > 0
    /\ \E q \in Paths \ {last.path} :
           /\ generate_file_id(q) \in DOMAIN meta
           /\ chunks_in_index(index, generate_file_id(q)) > 0

\* C18: after clear_index has returned the vector index holds no chunk and
\* the metadata collection no FileRecord, so a classification of the files
\* of the directory says 'new' for each, and so does the directory pass that
\* follows.
C18_ClearLeavesBothStoresEmpty ==
    /\ last.op = "clear" =>
           /\ last.ok
           /\ BagCardinality(index) = 0
           /\ DOMAIN meta = {}
           /\ \A p \in DOMAIN fs :
                  get_modified_files(DOMAIN fs, meta, NoFaults.file)[p] = "new"
    /\ (last.op = "dir" /\ last.prev_op = "clear") =>
           \A p \in DOMAIN last.status : last.status[p] = "new"

\* clear_index on an index that held chunks and records, files in the directory
C18_Witness ==
    /\ last.op = "clear"
    /\ DOMAIN last.pre_meta = FileIds
    /\ BagCardinality(last.pre_index) > 1
    /\ DOMAIN fs = Paths
    /\ index = EmptyBag

\* the events of the pass in progress that come before the i-th
Before(i) == {run.log[j] : j \in 1..(i - 1)}

\* C14: in a directory pass cleanup_deleted_files starts only when every file
\* of the work set has been processed, and no file is processed after it.
C14_CleanupAfterWorkSet ==
    run.op = "dir" =>
        \A i \in DOMAIN run.log :
            run.log[i][1] = "cleanup" =>
                /\ \A f \in Range(run.files_to_process) : <<"process", f>> \in Before(i)
                /\ \A j \in (i + 1)..Len(run.log) : run.log[j][1] # "process"
                /\ run.todo = <<>>
                /\ run.phase \notin {"process", "load"}

\* a pass about to return that has ingested a file and removed the record of
\* a deleted one
C14_Witness ==
    /\ run.op = "dir"
    /\ run.phase = "return"
    /\ run.ingested # {}
    /\ run.log[Len(run.log)] = <<"cleanup", 0>>
    /\ \E file_id \in DOMAIN run.pre_meta : file_id \notin DOMAIN meta

\* C19: a read of the chunks of a file made while the file, classified
\* modified, is being re-indexed never finds the file without chunks when it
\* had chunks before the re-indexing.
C19_ReaderNeverSeesFileWithoutChunks ==
    (/\ last.op = "read"
     /\ run.phase = "load"
     /\ run.p = last.path
     /\ run.cur_status = "modified"
     /\ run.removed > 0)
        => last.chunk_count > 0

\* the record store_file_metadata writes for p, called at time t
StoredRecord(p, t, chunk_count) ==
    tracking_record([get_file_metadata(p, TRUE) EXCEPT !.indexed_at = t], chunk_count)

\* the records of m other than that of file_id
Others(m, file_id) == Drop(m, {file_id})

\* C21: store_file_metadata inserts the record of a file that has none and
\* overwrites the whole record otherwise; after any sequence of
\* store_file_metadata, remove_file_metadata and cleanup_deleted_files calls
\* the metadata collection holds one record per file_id at most, under the
\* id of its file_path, with the values of the latest store.
C21_StoreIsUpsertByFileId ==
    /\ \A file_id \in DOMAIN meta : file_id = generate_file_id(meta[file_id].file_path)
    /\ (last.op = "store" /\ last.ok) =>
           /\ generate_file_id(last.path) \in DOMAIN meta
           /\ meta[generate_file_id(last.path)]
                  = StoredRecord(last.path, now - 1, last.chunk_count)
           /\ Others(meta, generate_file_id(last.path))
                  = Others(last.pre_meta, generate_file_id(last.path))
    /\ (last.op = "store" /\ ~last.ok) => meta = last.pre_meta
    /\ last.op = "remove" =>
           meta = Others(last.pre_meta, generate_file_id(last.path))
    /\ last.op = "cleanup" =>
           \A file_id \in DOMAIN meta :
               /\ file_id \in DOMAIN last.pre_meta
               /\ meta[file_id] = last.pre_meta[file_id]

\* a store over a record of the same file with other size, hash and chunk_count
C21_Witness ==
    /\ last.op = "store" /\ last.ok
    /\ generate_file_id(last.path) \in DOMAIN last.pre_meta
    /\ last.pre_meta[generate_file_id(last.path)].size
           # meta[generate_file_id(last.path)].size
    /\ last.pre_meta[generate_file_id(last.path)].content_hash
           # meta[generate_file_id(last.path)].content_hash
    /\ last.pre_meta[generate_file_id(last.path)].chunk_count
           # meta[generate_file_id(last.path)].chunk_count
    /\ Cardinality(DOMAIN meta) = 2

\* the chunks the last call has added to the document collection
AddedChunks == BagToSet(index (-) last.pre_index)

\* C22: every chunk an indexer call stores carries the file_id of the file it
\* was cut from: no chunk is stored without a file_id or under the id of
\* another file.
C22_ChunksCarryTheirFileId ==
    /\ \A ch \in BagToSet(index) : ch.file_id \in FileIds
    /\ IndexerReturned =>
           \A ch \in AddedChunks :
               \E p \in last.ingested :
                   /\ ch.file_id = generate_file_id(p)
                   /\ ch \in chunks_of(fs[p].content, generate_file_id(p))

\* a pass that has stored the chunks of two files
C22_Witness ==
    /\ last.op = "dir"
    /\ last.ingested = Paths
    /\ \A p \in Paths :
           \E ch \in AddedChunks : ch.file_id = generate_file_id(p)

\* the records of the path spelled a, in m, are stored under the id
\* generate_file_id gives a now
SameIdAsStored(a, m) ==
    \A file_id \in DOMAIN m :
        m[file_id].file_path = abspath(a) => generate_file_id(a) = file_id

\* C23: generate_file_id depends on the absolute path only: two spellings of
\* one absolute path get the same id, two absolute paths get different ids,
\* and the id of a path is the same in every state, whatever the content,
\* size and mtime of the file and whether it exists.
C23_FileIdIsFunctionOfAbsolutePath ==
    /\ \A a \in PathArgs, b \in PathArgs :
           (abspath(a) = abspath(b)) <=> (generate_file_id(a) = generate_file_id(b))
    /\ \A a \in PathArgs : SameIdAsStored(a, meta) /\ SameIdAsStored(a, last.pre_meta)

\* a file re-indexed after its mtime changed, found under the id of its
\* relative spelling
C23_Witness ==
    /\ last.op = "file"
    /\ last.ingested = {last.path}
    /\ generate_file_id(-last.path) \in DOMAIN last.pre_meta
    /\ last.pre_meta[generate_file_id(-last.path)].mtime # fs[last.path].mtime
    /\ generate_file_id(-last.path) \in DOMAIN meta

\* index_single_file on p, from the state as it is, stores nothing
NotIngested(p, r) ==
    /\ ~r.success
    /\ ~r.ingested
    /\ r.meta = meta
    /\ r.index = index

IsPrefix(s, t) == Len(s) <= Len(t) /\ \A i \in 1..Len(s) : s[i] = t[i]

\* is_file_modified has compared the signals in this order, stopped at the
\* first that differs from the record, and hashed the file only after the
\* two cheap signals were found equal to those of an existing record
ShortCircuits(order) ==
    last.op = "is_modified" =>
        /\ IsPrefix(last.checks, order)
        /\ last.status[last.path] \in {"new", "not_found"} => last.checks = << >>
        /\ (\E i \in 1..Len(last.checks) : last.checks[i] = "hash") <=>
               /\ exists(last.path)
               /\ generate_file_id(last.path) \in DOMAIN meta
               /\ st_size(fs[last.path].content) = meta[generate_file_id(last.path)].size
               /\ fs[last.path].mtime = meta[generate_file_id(last.path)].mtime
        /\ last.status[last.path] = "modified" =>
               \/ last.checks[Len(last.checks)] = "hash"
               \/ /\ last.checks[Len(last.checks)] = "mtime"
                  /\ fs[last.path].mtime # meta[generate_file_id(last.path)].mtime
               \/ /\ last.checks[Len(last.checks)] = "size"
                  /\ st_size(fs[last.path].content) # meta[generate_file_id(last.path)].size

\* C25 as stated: is_file_modified compares size, then mtime, stops at the
\* first difference and hashes the file only when a record exists and both
\* are equal to the recorded ones.
C25_SizeThenMtime == ShortCircuits(<<"size", "mtime", "hash">>)

\* C25, amended: is_file_modified compares mtime, then size, stops at the
\* first difference and hashes the file only when a record exists and both
\* are equal to the recorded ones; nothing is compared and nothing hashed for
\* a file classified new.
C25_MtimeThenSizeThenHash == ShortCircuits(<<"mtime", "size", "hash">>)

\* a tracked file with the recorded mtime and another size: classified
\* modified at the second comparison, without a hash
C25_Witness ==
    /\ last.op = "is_modified"
    /\ last.status[last.path] = "modified"
    /\ last.checks = <<"mtime", "size">>

\* C26: a file whose content could be read for hashing neither when its
\* record was stored nor now is not classified unchanged: the marker stored
\* in place of the hash differs from every hash of a content, and two markers
\* do not count as two equal hashes.
C26_UnavailableHashIsNotUnchanged ==
    /\ \A c \in Contents : md5_content(c) # HashUnavailable
    /\ (/\ last.op = "is_modified"
        /\ exists(last.path)
        /\ generate_file_id(last.path) \in DOMAIN meta
        /\ meta[generate_file_id(last.path)].content_hash = HashUnavailable
        /\ get_file_hash(last.path) = HashUnavailable)
           => last.status[last.path] # "unchanged"

\* C27: when the call of the language model fails in generate_response,
\* ask_question does not raise: it returns a result whose answer is the
\* string describing the error and whose sources are the retrieved chunks.
C27_LlmFailureIsDegradedAnswer ==
    (/\ last.op = "ask"
     /\ last.answer.llmFails
     /\ validate_query(last.answer.question)
     /\ last.answer.api_key_set
     /\ ~last.answer.queryFails
     /\ last.answer.retrieved_docs # EmptyBag)
        => /\ last.ok
           /\ Len(last.answer.result) = 1
           /\ last.answer.result[1].answer[1] = ErrorGeneratingResponse
           /\ last.answer.result[1].question = last.answer.question
           /\ last.answer.result[1].sources = last.answer.retrieved_docs
           /\ last.answer.result[1].num_sources = BagCardinality(last.answer.retrieved_docs)

\* a question answered from the chunks of two files, the model call failing
C27_Witness ==
    /\ last.op = "ask"
    /\ last.answer.llmFails
    /\ Len(last.answer.result) = 1
    /\ last.answer.result[1].num_sources = similarity_search_k
    /\ \E a \in BagToSet(last.answer.result[1].sources),
          b \in BagToSet(last.answer.result[1].sources) : a.file_id # b.file_id

\* the number of chunks the files of S have as they are on disk
RECURSIVE ChunksOfFiles(_)
ChunksOfFiles(S) ==
    IF S = {} THEN 0
    ELSE LET p == CHOOSE q \in S : TRUE
         IN  split_count(fs[p].content) + ChunksOfFiles(S \ {p})

\* C28: the counts a directory pass reports are what it did: the number of
\* files processed is the number of files ingested in the pass, and the chunk
\* total is the number of chunks the pass added to the vector index, in
\* normal and in force mode.
C28_ReportedCountsAreWhatWasDone ==
    (last.op = "dir" /\ last.ok /\ last.files_to_process # <<>>) =>
        /\ Len(last.files_to_process) = Cardinality(last.ingested)
        /\ last.chunk_count = ChunksOfFiles(last.ingested)

\* C29: the chunks of the vector index tagged with one file_id are those of
\* one ingestion of the file, and a file ingested as 'new' has in the index
\* its fresh chunks only, none of an earlier ingestion of the same path.
C29_ChunksOfOneIngestionOnly ==
    IndexerReturned =>
        /\ \A file_id \in FileIds :
               \/ with_file_id(index, file_id) = {}
               \/ \E c \in Contents :
                      ChunksOf(index, file_id) = SetToBag(chunks_of(c, file_id))
        /\ \A p \in last.ingested :
               last.status[p] = "new" =>
                   ChunksOf(index, generate_file_id(p))
                       = SetToBag(chunks_of(fs[p].content, generate_file_id(p)))

\* C30: a directory pass removes the FileRecord of no tracked file that is
\* still on disk, whatever directory the file is in.
C30_PassKeepsRecordsOfExistingFiles ==
    last.op = "dir" =>
        \A file_id \in DOMAIN last.pre_meta :
            exists(last.pre_meta[file_id].file_path) => file_id \in DOMAIN meta

\* C32: an index_single_file call that returns (False, 0) leaves the chunks
\* of the file in the vector index and the FileRecord of the file as they
\* were before the call.
C32_FailedCallChangesNothing ==
    (last.op = "file" /\ ~last.ok) =>
        /\ ChunksOf(index, generate_file_id(last.path))
               = ChunksOf(last.pre_index, generate_file_id(last.path))
        /\ RecordOf(meta, generate_file_id(last.path))
               = RecordOf(last.pre_meta, generate_file_id(last.path))

\* C33: is_file_modified and get_modified_files leave the FileRecords and
\* the vector index as they were, whatever the status they return and also
\* when the read of the stored record raises.
C33_ClassificationIsReadOnly ==
    last.op \in {"classify", "is_modified", "classify_fault", "is_modified_fault"} =>
        /\ meta = last.pre_meta
        /\ index = last.pre_index

\* the read of the record of an indexed file raises: the file is reported
\* new and its record and chunks are still there
C33_Witness ==
    /\ last.op = "is_modified_fault"
    /\ last.status[last.path] = "new"
    /\ generate_file_id(last.path) \in DOMAIN meta
    /\ chunks_in_index(index, generate_file_id(last.path)) > 0

\* the call of process i has returned
Done(i) == run.op = "calls" /\ run.calls[i].pc = "done"

\* C31: the record stored by index_single_file describes the content its
\* chunks were built from: after a call that ingested the file, no other
\* call running, also when the file was edited between the load and
\* store_file_metadata, a readable file that is classified unchanged has in
\* the index the chunks of the content now on disk.
C31_RecordDescribesIndexedContent ==
    \A i \in Runs :
        (/\ Done(i)
         /\ \A j \in Runs \ {i} : run.calls[j].pc = "idle"
         /\ run.calls[i].ingested
         /\ exists(run.calls[i].p)
         /\ ~read_raises(fs[run.calls[i].p].content)
         /\ is_file_modified(run.calls[i].p, meta, FALSE)[2] = "unchanged")
            => ChunksOf(index, generate_file_id(run.calls[i].p))
                  = SetToBag(chunks_of(fs[run.calls[i].p].content,
                                       generate_file_id(run.calls[i].p)))

\* C34: two index_single_file calls on the same file at the same time, one
\* of them at least ingesting it: when both have returned there is one
\* FileRecord for the file_id, the chunks of one ingestion, and the
\* chunk_count of the record is the number of chunks stored.
C34_ConcurrentRunsLeaveOneIngestion ==
    (/\ Done(1)
     /\ Done(2)
     /\ run.calls[1].p = run.calls[2].p
     /\ run.calls[1].success /\ run.calls[2].success
     /\ run.calls[1].ingested \/ run.calls[2].ingested)
        => /\ generate_file_id(run.calls[1].p) \in DOMAIN meta
           /\ ChunksOf(index, generate_file_id(run.calls[1].p))
                 = SetToBag(chunks_of(fs[run.calls[1].p].content,
                                      generate_file_id(run.calls[1].p)))
           /\ meta[generate_file_id(run.calls[1].p)].chunk_count
                 = chunks_in_index(index, generate_file_id(run.calls[1].p))

====
